---- MODULE Spec2Model ----
(***************************************************************************)
(* Model of the mycord terminal chat client (src/client.c): the main path  *)
(* (setup, login, send loop, logout, join, close), the receive worker      *)
(* (receive_messages_thread), the signal handler, and the full-transfer    *)
(* I/O helpers perform_full_read / perform_full_write.                     *)
(***************************************************************************)
EXTENDS Integers, Sequences, FiniteSets, TLC

\* ------------------------------------------------------------------------
\* Program constants
\* ------------------------------------------------------------------------
LOGIN == 0
LOGOUT == 1
MESSAGE_SEND == 2
MESSAGE_RECV == 10
DISCONNECT == 12
SYSTEM == 13

\* sizeof(message_t): 4 + 4 + 32 + 1024, packed
RecordSize == 1064
\* sizeof(message_t.username), sizeof(message_t.message)
UsernameSize == 32
MessageSize == 1024
\* sizeof(input_buffer)
InputBufferSize == 1024

\* exit status of `return -1` from main (low 8 bits of -1), and of falling
\* off the end of main
ExitFailure == 255
ExitSuccess == 0

\* ------------------------------------------------------------------------
\* Bounds of the model
\* ------------------------------------------------------------------------
\* perform_full_* checked in isolation: requested sizes and number of
\* read()/write() calls the transport answers
MaxN == 3
MaxCalls == 4
\* mention highlighting checked in isolation: longest body and user name
MaxBody == 4
MaxUser == 1
\* lines the user types before end-of-input
MaxLines == 1
\* records the peer sends before it stops
MaxPeerRecords == 1

VARIABLES
    pc,            \* position of the main path
    retval,        \* value main is about to return
    exitStatus,    \* process exit status, NoStatus while the process lives
    running,       \* settings.running
    sock,          \* settings.socket_fd: "none" (-1), "open", "closed"
    connected,     \* connect() succeeded
    closeCount,    \* number of close() calls on an open descriptor
    outbound,      \* records (or partial records) the client put on the wire
    logoutRet,     \* result of the LOGOUT perform_full_write, 0 before it
    logoutCount,   \* number of LOGOUT writes attempted
    joined,        \* pthread_join returned
    stdinRest,     \* unread remainder of the line being typed, or NoLine
    linesRead,     \* number of lines taken from the terminal so far
    input_buffer,  \* main's input_buffer after fgets
    rpc,           \* position of the receive worker
    rstatus,       \* worker's terminal status: "none", "clean", "error"
    size,          \* worker's `size` (result of perform_full_read)
    message,       \* worker's `message`
    rendered,      \* kind of the record the worker printed last, -1 if none
    inbound,       \* records the peer sent that the worker has not read
    peerSent,      \* number of records the peer sent
    peerClosed,    \* peer closed its end
    handlers,      \* the signal handlers are installed
    signalled,     \* a SIGINT or SIGTERM was delivered (noted by SpecSig only)
    io_op,         \* isolated I/O check: "read" or "write"
    io_pc,         \*   "call" before the helper ran, "returned" after
    io_n,          \*   requested byte count
    io_outs,       \*   results the transport gives to successive calls
    io_ret,        \*   value returned
    hl_pc,         \* mention highlighting on its own: "call" or "returned"
    hl_body,       \*   message.message, the characters before its NUL
    hl_user,       \*   settings->username
    hl_quiet,      \*   settings->quiet
    hl_out,        \*   what was printed after the "[time] user: " prefix
    cd_pc,         \* record building on its own: "build" or "built"
    cd_kind,       \*   which of the client's records is built
    cd_username,   \*   settings.username, all 32 bytes
    cd_input,      \*   input_buffer, all 1024 bytes
    cd_record      \*   the bytes handed to write()

mainVars == <<pc, retval, exitStatus, running, sock, connected, closeCount,
              outbound, logoutRet, logoutCount, joined, stdinRest, linesRead,
              input_buffer>>
workerVars == <<rpc, rstatus, size, message, rendered>>
peerVars == <<inbound, peerSent, peerClosed>>
ioOnly == <<io_op, io_pc, io_n, io_outs, io_ret>>
hlVars == <<hl_pc, hl_body, hl_user, hl_quiet, hl_out>>
cdVars == <<cd_pc, cd_kind, cd_username, cd_input, cd_record>>
ioVars == <<ioOnly, hlVars, cdVars>>
sigVars == <<handlers, signalled>>
vars == <<mainVars, workerVars, peerVars, sigVars, ioVars>>

NoStatus == -1
NoLine == [len |-> -1, bad |-> 0, off |-> 0]

Min(a, b) == IF a < b THEN a ELSE b

\* ------------------------------------------------------------------------
\* read()/write() results: the return value and errno
\* ------------------------------------------------------------------------
Moved(k) == [ret |-> k, errno |-> "none"]
Eintr == [ret |-> -1, errno |-> "EINTR"]
Fault == [ret |-> -1, errno |-> "EIO"]
PeerGone == Moved(0)

\* perform_full_write, the loop "while (total_written < n)".  outs are the
\* amounts the transport is willing to take on successive write() calls; a
\* call asks for n - total_written bytes, so it moves no more than that.
RECURSIVE WriteLoop(_, _, _)
WriteLoop(n, total_written, outs) ==
    IF total_written >= n THEN total_written
    ELSE LET r == Head(outs)
             bytes_written == IF r.ret > 0 THEN Min(r.ret, n - total_written)
                              ELSE r.ret
         IN  IF bytes_written = -1
             THEN IF r.errno = "EINTR"
                  THEN WriteLoop(n, total_written, Tail(outs))
                  ELSE -1
             ELSE IF bytes_written = 0
             THEN total_written
             ELSE WriteLoop(n, total_written + bytes_written, Tail(outs))

perform_full_write(n, outs) == WriteLoop(n, 0, outs)

\* a read loop that gives up on an interrupted call
RECURSIVE ReadLoopNoRetry(_, _, _)
ReadLoopNoRetry(n, total_read, outs) ==
    IF total_read >= n THEN total_read
    ELSE LET r == Head(outs)
             bytes_read == IF r.ret > 0 THEN Min(r.ret, n - total_read)
                           ELSE r.ret
         IN  IF bytes_read = -1
             THEN -1
             ELSE IF bytes_read = 0
             THEN total_read
             ELSE ReadLoopNoRetry(n, total_read + bytes_read, Tail(outs))

\* perform_full_read, the loop "while (total_read < n)"
RECURSIVE ReadLoop(_, _, _)
ReadLoop(n, total_read, outs) ==
    IF total_read >= n THEN total_read
    ELSE LET r == Head(outs)
             bytes_read == IF r.ret > 0 THEN Min(r.ret, n - total_read)
                           ELSE r.ret
         IN  IF bytes_read = -1
             THEN IF r.errno = "EINTR"
                  THEN ReadLoop(n, total_read, Tail(outs))
                  ELSE -1
             ELSE IF bytes_read = 0
             THEN total_read
             ELSE ReadLoop(n, total_read + bytes_read, Tail(outs))

perform_full_read(n, outs) == ReadLoop(n, 0, outs)

\* ------------------------------------------------------------------------
\* What a transport did, read off the list of results alone
\* ------------------------------------------------------------------------
IsFinal(r) == r = PeerGone \/ r = Fault

\* index of the first result that is a close or a fault, Len+1 if none
RECURSIVE FirstFinal(_, _)
FirstFinal(outs, i) ==
    IF i > Len(outs) THEN i
    ELSE IF IsFinal(outs[i]) THEN i
    ELSE FirstFinal(outs, i + 1)

\* bytes offered by the results before index j
RECURSIVE Supplied(_, _)
Supplied(outs, j) ==
    IF j <= 1 THEN 0
    ELSE Supplied(outs, j - 1)
         + (IF outs[j - 1].ret > 0 THEN outs[j - 1].ret ELSE 0)

\* the transport answers every call the loop can make: it supplies n bytes
\* or ends with a close or a fault
Answers(n, outs) ==
    LET f == FirstFinal(outs, 1)
    IN  Supplied(outs, f) >= n \/ f <= Len(outs)


\* ------------------------------------------------------------------------
\* Byte order.  A 32-bit field on the wire is four bytes, most significant
\* first.
\* ------------------------------------------------------------------------
htonl(v) == <<(v \div 16777216) % 256, (v \div 65536) % 256,
              (v \div 256) % 256, v % 256>>
\* the four bytes read as they lie in memory on a little-endian host
HostOrder(b) == b[4] * 16777216 + b[3] * 65536 + b[2] * 256 + b[1]
ntohl(b) == b[1] * 16777216 + b[2] * 65536 + b[3] * 256 + b[4]
\* htons applied to a value that is then stored in the 32-bit message_type
\* (little-endian host): the two low-order bytes, swapped, come first
htons(v) == <<(v \div 256) % 256, v % 256, 0, 0>>

\* ------------------------------------------------------------------------
\* The environment: the terminal and the peer
\* ------------------------------------------------------------------------
\* A typed line: len characters before its line break; bad is the position
\* of its first non-printable character, 0 when all are printable.
Lines ==
    { [len |-> 0, bad |-> 0],
      [len |-> 1, bad |-> 0],
      [len |-> 1, bad |-> 1],
      [len |-> InputBufferSize - 1, bad |-> 0],
      [len |-> InputBufferSize, bad |-> 0],
      [len |-> InputBufferSize, bad |-> InputBufferSize] }

\* kind fields the peer may put on the wire: the three inbound kinds, an
\* outbound-only kind, and MESSAGE_RECV in the wrong byte order
PeerKinds ==
    { htonl(MESSAGE_RECV), htonl(DISCONNECT), htonl(SYSTEM), htonl(LOGIN),
      <<MESSAGE_RECV, 0, 0, 0>> }

\* sizes of an unfinished record the peer may leave behind when it closes
PartialSizes == {1, RecordSize - 1}

\* results the transport can give the worker's read() calls for one record
ReadOutcomes ==
    (IF inbound # <<>>
     THEN { <<Moved(RecordSize)>>,
            <<Moved(1), Moved(RecordSize)>>,
            <<Eintr, Moved(RecordSize - 1), Eintr, Moved(1)>> }
     ELSE IF peerClosed
     THEN { <<PeerGone>>, <<Eintr, PeerGone>> }
          \cup { <<Eintr, Moved(p), Eintr, PeerGone>> : p \in PartialSizes }
     ELSE {})
    \cup { <<Fault>> }

\* results the transport can give the write() calls for one record
WriteOutcomes ==
    (IF connected /\ sock = "open"
     THEN { <<Moved(RecordSize)>>,
            <<Moved(1), Eintr, Moved(RecordSize)>> }
     ELSE {})
    \cup { <<Fault>>, <<Eintr, Moved(1), PeerGone>> }

\* bytes the calls put on the wire before the helper returned
RECURSIVE BytesMoved(_, _, _)
BytesMoved(n, total, outs) ==
    IF total >= n \/ outs = <<>> THEN total
    ELSE LET r == Head(outs)
         IN  IF r = Eintr THEN BytesMoved(n, total, Tail(outs))
             ELSE IF r.ret <= 0 THEN total
             ELSE BytesMoved(n, total + Min(r.ret, n - total), Tail(outs))


\* ------------------------------------------------------------------------
\* Initial state: the process has just entered main
\* ------------------------------------------------------------------------
EmptyBuffer == [len |-> 0, bad |-> 0, off |-> 0, cnt |-> 0, nl |-> FALSE]

IoIdle ==
    /\ io_op = "none"
    /\ io_pc = "call"
    /\ io_n = 0
    /\ io_outs = <<>>
    /\ io_ret = 0

HlIdle ==
    /\ hl_pc = "call"
    /\ hl_body = <<>>
    /\ hl_user = <<>>
    /\ hl_quiet = FALSE
    /\ hl_out = <<>>

CdIdle ==
    /\ cd_pc = "build"
    /\ cd_kind = LOGIN
    /\ cd_username = <<>>
    /\ cd_input = <<>>
    /\ cd_record = <<>>

ProgramInit ==
    /\ pc = "sigaction"
    /\ retval = 0
    /\ exitStatus = NoStatus
    /\ running = FALSE            \* static settings_t settings = {0}
    /\ sock = "none"
    /\ connected = FALSE
    /\ closeCount = 0
    /\ outbound = <<>>
    /\ logoutRet = 0
    /\ logoutCount = 0
    /\ joined = FALSE
    /\ stdinRest = NoLine
    /\ linesRead = 0
    /\ input_buffer = EmptyBuffer
    /\ rpc = "not_started"
    /\ rstatus = "none"
    /\ size = 0
    /\ message = [net |-> htonl(0), message_type |-> -1]   \* nothing decoded yet
    /\ rendered = -1
    /\ inbound = <<>>
    /\ peerSent = 0
    /\ peerClosed = FALSE
    /\ handlers = FALSE
    /\ signalled = FALSE

Init == ProgramInit /\ IoIdle /\ HlIdle /\ CdIdle

\* an outbound record as it went on the wire: its kind field, the part of
\* the typed line its body holds, and how many of its bytes were written
Record(kind, buf, n) ==
    [message_type |-> kind, len |-> buf.len, off |-> buf.off,
     cnt |-> Min(buf.cnt, InputBufferSize - 1), bytes |-> n]

\* main gives up: close(settings.socket_fd); return -1;
Fail ==
    /\ pc' = "close"
    /\ retval' = -1

\* ------------------------------------------------------------------------
\* main, setup
\* ------------------------------------------------------------------------
\* lines 286-295: install the SIGINT and SIGTERM handlers
InstallHandlers ==
    /\ pc = "sigaction"
    /\ \E ok \in BOOLEAN :
          IF ok THEN pc' = "defaults" /\ retval' = retval /\ handlers' = TRUE
                ELSE pc' = "return" /\ retval' = -1 /\ handlers' = handlers
    /\ UNCHANGED <<signalled, exitStatus, running, sock, connected,
                   closeCount, outbound, logoutRet, logoutCount, joined,
                   stdinRest, linesRead, input_buffer, workerVars, peerVars,
                   ioVars>>

\* lines 298-303: default settings
Defaults ==
    /\ pc = "defaults"
    /\ sock' = "none"
    /\ running' = FALSE
    /\ pc' = "process_args"
    /\ UNCHANGED <<retval, exitStatus, connected, closeCount, outbound,
                   logoutRet, logoutCount, joined, stdinRest, linesRead,
                   input_buffer, workerVars, peerVars, sigVars, ioVars>>

\* lines 306-315: process_args and get_username, each of which may fail
Collaborators ==
    /\ pc \in {"process_args", "get_username"}
    /\ \E ok \in BOOLEAN :
          IF ok
          THEN /\ pc' = IF pc = "process_args" THEN "get_username" ELSE "socket"
               /\ retval' = retval
          ELSE Fail
    /\ UNCHANGED <<exitStatus, running, sock, connected, closeCount, outbound,
                   logoutRet, logoutCount, joined, stdinRest, linesRead,
                   input_buffer, workerVars, peerVars, sigVars, ioVars>>

\* lines 318-323: socket()
CreateSocket ==
    /\ pc = "socket"
    /\ \E ok \in BOOLEAN :
          IF ok THEN sock' = "open" /\ pc' = "connect" /\ retval' = retval
                ELSE sock' = "none" /\ Fail
    /\ UNCHANGED <<exitStatus, running, connected, closeCount, outbound,
                   logoutRet, logoutCount, joined, stdinRest, linesRead,
                   input_buffer, workerVars, peerVars, sigVars, ioVars>>

\* lines 326-329: connect(); a failure is reported and main goes on
Connect ==
    /\ pc = "connect"
    /\ \E ok \in BOOLEAN : connected' = ok
    /\ pc' = "set_running"
    /\ UNCHANGED <<retval, exitStatus, running, sock, closeCount, outbound,
                   logoutRet, logoutCount, joined, stdinRest, linesRead,
                   input_buffer, workerVars, peerVars, sigVars, ioVars>>

\* line 330: settings.running = true
SetRunning ==
    /\ pc = "set_running"
    /\ running' = TRUE
    /\ pc' = "login"
    /\ UNCHANGED <<retval, exitStatus, sock, connected, closeCount, outbound,
                   logoutRet, logoutCount, joined, stdinRest, linesRead,
                   input_buffer, workerVars, peerVars, sigVars, ioVars>>

\* what the single write() of the login record can return: -1 on a socket
\* that is not connected, else -1, or any count up to the record size
LoginWriteResults ==
    IF connected THEN {-1, 1, RecordSize} ELSE {-1}

\* a login that goes on whatever write() returned
LoginIgnoresFailure ==
    /\ pc = "login"
    /\ \E r \in LoginWriteResults :
          /\ outbound' = IF r <= 0 THEN outbound
                         ELSE Append(outbound, Record(htons(LOGIN), EmptyBuffer, r))
          /\ pc' = "create"
          /\ retval' = retval
    /\ UNCHANGED <<exitStatus, running, sock, connected, closeCount,
                   logoutRet, logoutCount, joined, stdinRest, linesRead,
                   input_buffer, workerVars, peerVars, sigVars, ioVars>>

\* lines 333-350: build the login record and write() it once
Login ==
    /\ pc = "login"
    /\ \E r \in LoginWriteResults :
          IF r <= 0
          THEN /\ Fail
               /\ outbound' = outbound
          ELSE /\ outbound' = Append(outbound, Record(htons(LOGIN), EmptyBuffer, r))
               /\ pc' = "create"
               /\ retval' = retval
    /\ UNCHANGED <<exitStatus, running, sock, connected, closeCount,
                   logoutRet, logoutCount, joined, stdinRest, linesRead,
                   input_buffer, workerVars, peerVars, sigVars, ioVars>>

\* lines 353-361: pthread_create
CreateWorker ==
    /\ pc = "create"
    /\ \E ok \in BOOLEAN :
          IF ok THEN rpc' = "check" /\ pc' = "loop" /\ retval' = retval
                ELSE rpc' = rpc /\ Fail
    /\ UNCHANGED <<exitStatus, running, sock, connected, closeCount, outbound,
                   logoutRet, logoutCount, joined, stdinRest, linesRead,
                   input_buffer, rstatus, size, message, rendered,
                   peerVars, sigVars, ioVars>>


\* ------------------------------------------------------------------------
\* main, the send loop
\* ------------------------------------------------------------------------
\* line 364: while (settings.running)
LoopCheck ==
    /\ pc = "loop"
    /\ pc' = IF running THEN "call_fgets" ELSE "after_loop"
    /\ UNCHANGED <<retval, exitStatus, running, sock, connected, closeCount,
                   outbound, logoutRet, logoutCount, joined, stdinRest,
                   linesRead, input_buffer, workerVars, peerVars, sigVars,
                   ioVars>>

\* line 366: the loop test has passed and main calls fgets, which waits in
\* read() for the terminal; a signal handled before this point interrupts
\* nothing
FgetsCall ==
    /\ pc = "call_fgets"
    /\ pc' = "fgets"
    /\ UNCHANGED <<retval, exitStatus, running, sock, connected, closeCount,
                   outbound, logoutRet, logoutCount, joined, stdinRest,
                   linesRead, input_buffer, workerVars, peerVars, sigVars,
                   ioVars>>

\* fgets(input_buffer, sizeof(input_buffer), stdin) on the line `cur`, of
\* which cur.off characters were taken by earlier calls: it stores at most
\* sizeof - 1 characters and stops after a line break
FgetsChunk(cur) ==
    LET rem == cur.len - cur.off
    IN  IF rem + 1 <= InputBufferSize - 1
        THEN [len |-> cur.len, bad |-> cur.bad, off |-> cur.off,
              cnt |-> rem, nl |-> TRUE]
        ELSE [len |-> cur.len, bad |-> cur.bad, off |-> cur.off,
              cnt |-> InputBufferSize - 1, nl |-> FALSE]

\* strnlen(input_buffer, sizeof(input_buffer))
BufferLen(buf) == buf.cnt + (IF buf.nl THEN 1 ELSE 0)

\* lines 371-375: drop a trailing line break
StripNewline(buf) ==
    IF BufferLen(buf) > 0 /\ buf.nl THEN [buf EXCEPT !.nl = FALSE] ELSE buf

\* lines 377-401 on the stripped buffer: TRUE when the line is to be sent.
\* The scan of lines 387-398 finds no line break (fgets stops at one) and
\* finds a non-printable character when the line's first one is in the part
\* the buffer holds.
Accepts(buf) ==
    LET len == BufferLen(buf)
    IN  /\ ~(len = 0)                                  \* input_buffer[0] == 0
        /\ ~(len < 1 \/ len > InputBufferSize - 1)
        /\ ~(buf.bad > buf.off /\ buf.bad <= buf.off + len)

\* lines 366-401: read a line, where NULL (end of input, error, interrupted
\* read) breaks out of the loop; strip the line break and validate, where an
\* invalid line is skipped
Fgets ==
    /\ pc = "fgets"
    /\ \/ /\ pc' = "after_loop"
          /\ UNCHANGED <<stdinRest, linesRead, input_buffer>>
       \/ \E cur \in (IF stdinRest # NoLine THEN {stdinRest}
                      ELSE IF linesRead < MaxLines
                      THEN {[len |-> l.len, bad |-> l.bad, off |-> 0] : l \in Lines}
                      ELSE {}) :
            LET buf == FgetsChunk(cur)
            IN  /\ input_buffer' = StripNewline(buf)
                /\ stdinRest' = IF buf.nl THEN NoLine
                                ELSE [cur EXCEPT !.off = cur.off + buf.cnt]
                /\ linesRead' = IF stdinRest = NoLine THEN linesRead + 1
                                ELSE linesRead
                /\ pc' = IF Accepts(StripNewline(buf)) THEN "send" ELSE "loop"
    /\ UNCHANGED <<retval, exitStatus, running, sock, connected, closeCount,
                   outbound, logoutRet, logoutCount, joined, workerVars,
                   peerVars, sigVars, ioVars>>

\* lines 403-413: build a MESSAGE_SEND record and write it in full; a short
\* or failed write breaks out of the loop
Send ==
    /\ pc = "send"
    /\ \E outs \in WriteOutcomes :
          LET n == perform_full_write(RecordSize, outs)
              moved == BytesMoved(RecordSize, 0, outs)
          IN  /\ outbound' = IF moved > 0
                             THEN Append(outbound,
                                    Record(htonl(MESSAGE_SEND), input_buffer, moved))
                             ELSE outbound
              /\ pc' = IF n # RecordSize THEN "after_loop" ELSE "loop"
    /\ UNCHANGED <<retval, exitStatus, running, sock, connected, closeCount,
                   logoutRet, logoutCount, joined, stdinRest, linesRead,
                   input_buffer, workerVars, peerVars, sigVars, ioVars>>

\* ------------------------------------------------------------------------
\* main, shutdown
\* ------------------------------------------------------------------------
\* line 415: settings.running = false
ClearRunning ==
    /\ pc = "after_loop"
    /\ running' = FALSE
    /\ pc' = "logout"
    /\ UNCHANGED <<retval, exitStatus, sock, connected, closeCount, outbound,
                   logoutRet, logoutCount, joined, stdinRest, linesRead,
                   input_buffer, workerVars, peerVars, sigVars, ioVars>>

\* lines 417-424: write the LOGOUT record; when the write is not complete,
\* close the socket and return -1
Logout ==
    /\ pc = "logout"
    /\ \E outs \in WriteOutcomes :
          LET n == perform_full_write(RecordSize, outs)
              moved == BytesMoved(RecordSize, 0, outs)
          IN  /\ logoutRet' = n
              /\ outbound' = IF moved > 0
                             THEN Append(outbound,
                                    Record(htonl(LOGOUT), EmptyBuffer, moved))
                             ELSE outbound
              /\ IF n # RecordSize
                 THEN Fail
                 ELSE pc' = "join" /\ retval' = retval
    /\ logoutCount' = logoutCount + 1
    /\ UNCHANGED <<exitStatus, running, sock, connected, closeCount, joined,
                   stdinRest, linesRead, input_buffer, workerVars, peerVars,
                   sigVars, ioVars>>

\* lines 432-441: pthread_join returns once the worker has terminated;
\* status != NULL closes and returns -1; otherwise main closes and runs off
\* its end, which returns 0
Join ==
    /\ pc = "join"
    /\ rpc = "done"
    /\ joined' = TRUE
    /\ pc' = "close"
    /\ retval' = IF rstatus # "clean" THEN -1 ELSE 0
    /\ UNCHANGED <<exitStatus, running, sock, connected, closeCount, outbound,
                   logoutRet, logoutCount, stdinRest, linesRead, input_buffer,
                   workerVars, peerVars, sigVars, ioVars>>

\* close(settings.socket_fd); on -1 it closes nothing
Close ==
    /\ pc = "close"
    /\ sock' = IF sock = "open" THEN "closed" ELSE sock
    /\ closeCount' = IF sock = "open" THEN closeCount + 1 ELSE closeCount
    /\ pc' = "return"
    /\ UNCHANGED <<retval, exitStatus, running, connected, outbound,
                   logoutRet, logoutCount, joined, stdinRest, linesRead,
                   input_buffer, workerVars, peerVars, sigVars, ioVars>>

\* main returns: the process exits, and the worker with it
Return ==
    /\ pc = "return"
    /\ exitStatus' = IF retval = 0 THEN ExitSuccess ELSE ExitFailure
    /\ pc' = "exited"
    /\ UNCHANGED <<retval, running, sock, connected, closeCount, outbound,
                   logoutRet, logoutCount, joined, stdinRest, linesRead,
                   input_buffer, workerVars, peerVars, sigVars, ioVars>>

\* lines 160-166: handle_signal, for a SIGINT or SIGTERM delivered once the
\* handlers are installed
Handler ==
    /\ handlers
    /\ pc # "exited"
    /\ running' = FALSE
    /\ UNCHANGED <<handlers, pc, retval, exitStatus, sock, connected, closeCount,
                   outbound, logoutRet, logoutCount, joined, stdinRest,
                   linesRead, input_buffer, workerVars, peerVars, ioVars>>

HandleSignal == Handler /\ signalled' = signalled

\* the same delivery, noted
HandleSignalNoted == Handler /\ signalled' = TRUE

\* ------------------------------------------------------------------------
\* The receive worker, receive_messages_thread
\* ------------------------------------------------------------------------
\* line 219: while (settings->running); line 281: return NULL.
\* running is a plain bool shared with main and the signal handler; each
\* loop calls read(), fgets() or printf() between two tests, so every test
\* loads the flag again and sees the value some interleaving gives it.
RecvCheck ==
    /\ rpc = "check"
    /\ pc # "exited"
    /\ IF running
       THEN rpc' = "read" /\ rstatus' = rstatus
       ELSE rpc' = "done" /\ rstatus' = "clean"
    /\ UNCHANGED <<size, message, rendered, mainVars, peerVars,
                   sigVars, ioVars>>

\* line 223: perform_full_read of one record; it blocks until the transport
\* has an answer for every read() call
RecvRead ==
    /\ rpc = "read"
    /\ pc # "exited"
    /\ \E outs \in ReadOutcomes :
          LET n == perform_full_read(RecordSize, outs)
          IN  /\ size' = n
              /\ IF n = RecordSize
                 THEN /\ message' = [message EXCEPT !.net = Head(inbound).message_type]
                      /\ inbound' = Tail(inbound)
                 ELSE /\ message' = message
                      /\ inbound' = inbound
    /\ rpc' = "examine"
    /\ UNCHANGED <<rstatus, rendered, peerSent, peerClosed,
                   mainVars, sigVars, ioVars>>

\* a worker that treats every incomplete read as an error, whatever the
\* run-state
RecvExamineShortIsError ==
    /\ rpc = "examine"
    /\ pc # "exited"
    /\ IF size # RecordSize
       THEN /\ rpc' = "done"
            /\ rstatus' = "error"
            /\ message' = message
            /\ rendered' = rendered
       ELSE LET message_type == ntohl(message.net)
            IN  /\ message' = [message EXCEPT !.message_type = message_type]
                /\ IF message_type \in {MESSAGE_RECV, DISCONNECT, SYSTEM}
                   THEN /\ rendered' = message_type
                        /\ rpc' = "check"
                        /\ rstatus' = rstatus
                   ELSE /\ rendered' = rendered
                        /\ rpc' = "done"
                        /\ rstatus' = "error"
    /\ UNCHANGED <<size, mainVars, peerVars, sigVars, ioVars>>

\* a worker that silently skips the outbound-only kinds instead of ending
RecvExamineSkipsOutboundKinds ==
    /\ rpc = "examine"
    /\ pc # "exited"
    /\ IF size # RecordSize
       THEN /\ rpc' = "done"
            /\ rstatus' = IF ~running THEN "clean" ELSE "error"
            /\ message' = message
            /\ rendered' = rendered
       ELSE LET message_type == ntohl(message.net)
            IN  /\ message' = [message EXCEPT !.message_type = message_type]
                /\ IF message_type \in {MESSAGE_RECV, DISCONNECT, SYSTEM}
                   THEN /\ rendered' = message_type
                        /\ rpc' = "check"
                        /\ rstatus' = rstatus
                   ELSE IF message_type \in {LOGIN, LOGOUT, MESSAGE_SEND}
                   THEN /\ rendered' = rendered
                        /\ rpc' = "check"
                        /\ rstatus' = rstatus
                   ELSE /\ rendered' = rendered
                        /\ rpc' = "done"
                        /\ rstatus' = "error"
    /\ UNCHANGED <<size, mainVars, peerVars, sigVars, ioVars>>

\* lines 225-279: an incomplete read ends the worker, clean when running is
\* already false and with an error otherwise; a complete record has its
\* integer fields converted to host order and is printed by kind, after
\* which the worker goes round the loop again; any other kind is reported
\* and ends the worker with an error
RecvExamine ==
    /\ rpc = "examine"
    /\ pc # "exited"
    /\ IF size # RecordSize
       THEN /\ rpc' = "done"
            /\ rstatus' = IF ~running THEN "clean" ELSE "error"
            /\ message' = message
            /\ rendered' = rendered
       ELSE LET message_type == ntohl(message.net)
            IN  /\ message' = [message EXCEPT !.message_type = message_type]
                /\ IF message_type \in {MESSAGE_RECV, DISCONNECT, SYSTEM}
                   THEN /\ rendered' = message_type
                        /\ rpc' = "check"
                        /\ rstatus' = rstatus
                   ELSE /\ rendered' = rendered
                        /\ rpc' = "done"
                        /\ rstatus' = "error"
    /\ UNCHANGED <<size, mainVars, peerVars, sigVars, ioVars>>

\* ------------------------------------------------------------------------
\* The peer
\* ------------------------------------------------------------------------
PeerSend ==
    /\ connected
    /\ ~peerClosed
    /\ peerSent < MaxPeerRecords
    /\ pc # "exited"
    /\ \E k \in PeerKinds : inbound' = Append(inbound, [message_type |-> k])
    /\ peerSent' = peerSent + 1
    /\ UNCHANGED <<peerClosed, mainVars, workerVars, sigVars, ioVars>>

PeerClose ==
    /\ connected
    /\ ~peerClosed
    /\ pc # "exited"
    /\ peerClosed' = TRUE
    /\ UNCHANGED <<inbound, peerSent, mainVars, workerVars, sigVars, ioVars>>

\* ------------------------------------------------------------------------
\* The program
\* ------------------------------------------------------------------------
Next ==
    \/ InstallHandlers
    \/ Defaults
    \/ Collaborators
    \/ CreateSocket
    \/ Connect
    \/ SetRunning
    \/ Login
    \/ CreateWorker
    \/ LoopCheck
    \/ FgetsCall
    \/ Fgets
    \/ Send
    \/ ClearRunning
    \/ Logout
    \/ Join
    \/ Close
    \/ Return
    \/ HandleSignal
    \/ RecvCheck
    \/ RecvRead
    \/ RecvExamine
    \/ PeerSend
    \/ PeerClose

Spec == Init /\ [][Next]_vars

\* the program with every delivery of a signal noted
SigNext ==
    \/ InstallHandlers
    \/ Defaults
    \/ Collaborators
    \/ CreateSocket
    \/ Connect
    \/ SetRunning
    \/ Login
    \/ CreateWorker
    \/ LoopCheck
    \/ FgetsCall
    \/ Fgets
    \/ Send
    \/ ClearRunning
    \/ Logout
    \/ Join
    \/ Close
    \/ Return
    \/ HandleSignalNoted
    \/ RecvCheck
    \/ RecvRead
    \/ RecvExamine
    \/ PeerSend
    \/ PeerClose

SpecSig == Init /\ [][SigNext]_vars

\* Scheduling: a thread that can take its next step takes it. The worker's
\* read returns once a record has arrived or the peer has closed; until then
\* it may block for ever. pthread_join, close and the return from main do
\* not wait for the environment. The terminal, the peer and signals are
\* under no obligation.
Fairness ==
    /\ WF_vars(RecvCheck)
    /\ WF_vars((inbound # <<>> \/ peerClosed) /\ RecvRead)
    /\ WF_vars(RecvExamine)
    /\ WF_vars(Join)
    /\ WF_vars(Close)
    /\ WF_vars(Return)

SpecFair == Init /\ [][Next]_vars /\ Fairness

\* ------------------------------------------------------------------------
\* perform_full_read and perform_full_write on their own: every requested
\* size up to MaxN against every list of at most MaxCalls results that
\* answers all the calls the loop makes
\* ------------------------------------------------------------------------
CallResults == {Eintr, Fault} \cup {Moved(k) : k \in 0..MaxN}

RECURSIVE ResultLists(_)
ResultLists(k) ==
    IF k = 0 THEN {<<>>}
    ELSE LET shorter == ResultLists(k - 1)
         IN  shorter \cup {Append(o, r) : o \in shorter, r \in CallResults}

IoInit ==
    /\ ProgramInit
    /\ io_op \in {"read", "write"}
    /\ io_n \in 1..MaxN
    /\ io_outs \in {o \in ResultLists(MaxCalls) : Answers(io_n, o)}
    /\ io_pc = "call"
    /\ io_ret = 0
    /\ HlIdle
    /\ CdIdle

IoRead ==
    /\ io_op = "read"
    /\ io_pc = "call"
    /\ io_pc' = "returned"
    /\ io_ret' = perform_full_read(io_n, io_outs)
    /\ UNCHANGED <<io_op, io_n, io_outs, hlVars, cdVars, mainVars,
                   workerVars, peerVars, sigVars>>

IoWrite ==
    /\ io_op = "write"
    /\ io_pc = "call"
    /\ io_pc' = "returned"
    /\ io_ret' = perform_full_write(io_n, io_outs)
    /\ UNCHANGED <<io_op, io_n, io_outs, hlVars, cdVars, mainVars,
                   workerVars, peerVars, sigVars>>

IoNext == IoRead \/ IoWrite

SpecIO == IoInit /\ [][IoNext]_vars


\* ------------------------------------------------------------------------
\* Mention highlighting, lines 245-271, on its own: every body of at most
\* MaxBody characters against every user name of at most MaxUser characters
\* ------------------------------------------------------------------------
Chars == {"@", "a", "b"}
UserChars == {"@", "a"}

\* what printf put on the terminal, piece by piece
Char(c) == [t |-> "char", s |-> <<c>>]
Bell == [t |-> "bell", s |-> <<>>]
Mention(compare) == [t |-> "mention", s |-> compare]
Newline == [t |-> "newline", s |-> <<>>]

\* char compare[34] = "@"; strncat(compare, settings->username, 33)
Compare(username) == <<"@">> \o SubSeq(username, 1, Min(Len(username), 33))

\* strncmp(&message.message[i], compare, username_length) == 0, for the
\* 1-based position i with i + username_length - 1 inside the body
StrnEq(body, i, compare, username_length) ==
    \A j \in 1..username_length : body[i + j - 1] = compare[j]

\* a scan that rings the bell on every hit
RECURSIVE ScanBellEveryHit(_, _, _, _)
ScanBellEveryHit(body, compare, i, mentioned) ==
    LET length == Len(body)
        username_length == Len(compare)
    IN  IF ~(i <= length) THEN <<>>
        ELSE IF i - 1 + username_length <= length
                /\ StrnEq(body, i, compare, username_length)
        THEN <<Bell, Mention(compare)>>
             \o ScanBellEveryHit(body, compare, i + username_length, TRUE)
        ELSE <<Char(body[i])>> \o ScanBellEveryHit(body, compare, i + 1, mentioned)

\* lines 255-269: the loop "for (size_t i = 0; i<length; )", i 1-based here
RECURSIVE Scan(_, _, _, _)
Scan(body, compare, i, mentioned) ==
    LET length == Len(body)
        username_length == Len(compare)
    IN  IF ~(i <= length) THEN <<>>
        ELSE IF i - 1 + username_length <= length
                /\ StrnEq(body, i, compare, username_length)
        THEN (IF ~mentioned THEN <<Bell>> ELSE <<>>)
             \o <<Mention(compare)>>
             \o Scan(body, compare, i + username_length, TRUE)
        ELSE <<Char(body[i])>> \o Scan(body, compare, i + 1, mentioned)

\* lines 245-271: quiet prints the body with "%s\n"; otherwise the scan and
\* a line break
Highlight(body, username, quiet) ==
    IF quiet
    THEN [i \in 1..Len(body) |-> Char(body[i])] \o <<Newline>>
    ELSE Scan(body, Compare(username), 1, FALSE) \o <<Newline>>

RECURSIVE Strings(_, _)
Strings(alphabet, k) ==
    IF k = 0 THEN {<<>>}
    ELSE LET shorter == Strings(alphabet, k - 1)
         IN  shorter \cup {Append(w, c) : w \in shorter, c \in alphabet}

HlInit ==
    /\ ProgramInit
    /\ IoIdle
    /\ hl_pc = "call"
    /\ hl_body \in Strings(Chars, MaxBody)
    /\ hl_user \in Strings(UserChars, MaxUser)
    /\ hl_quiet \in BOOLEAN
    /\ hl_out = <<>>
    /\ CdIdle

HlPrint ==
    /\ hl_pc = "call"
    /\ hl_pc' = "returned"
    /\ hl_out' = Highlight(hl_body, hl_user, hl_quiet)
    /\ UNCHANGED <<hl_body, hl_user, hl_quiet, ioOnly, cdVars, mainVars,
                   workerVars, peerVars, sigVars>>

HlNext == HlPrint

SpecHL == HlInit /\ [][HlNext]_vars

\* ------------------------------------------------------------------------
\* The records the client builds (lines 333-342, 403-406, 417-418) and the
\* worker's reading of a record (lines 222-235), on their own, byte by byte
\* ------------------------------------------------------------------------
Zero(n) == [i \in 1..n |-> 0]

\* strnlen(buf, Len(buf)): the bytes before the first NUL
Strnlen(buf) ==
    LET nuls == {i \in DOMAIN buf : buf[i] = 0}
    IN  IF nuls = {} THEN Len(buf)
        ELSE (CHOOSE i \in nuls : \A j \in nuls : i <= j) - 1

\* strncpy(dst, src, n): the bytes of src before its NUL, at most n, and
\* NULs up to n
Strncpy(dst, src, n) ==
    LET length == Strnlen(src)
    IN  [i \in DOMAIN dst |->
            IF i > n THEN dst[i]
            ELSE IF i <= length THEN src[i] ELSE 0]

\* the packed message_t as the bytes write() is given
Bytes(m) == m.message_type \o m.timestamp \o m.username \o m.message

\* message_t login_message = {.message_type = LOGIN}; strncpy; htons
LoginMessage(username) ==
    [message_type |-> htons(LOGIN),
     timestamp |-> Zero(4),
     username |-> Strncpy(Zero(UsernameSize), username, 32),
     message |-> Zero(MessageSize)]

\* message_t outbound_message = {0}; htonl; strncpy; message[1023] = '\0'
OutboundMessage(buffer) ==
    [message_type |-> htonl(MESSAGE_SEND),
     timestamp |-> Zero(4),
     username |-> Zero(UsernameSize),
     message |-> [Strncpy(Zero(MessageSize), buffer, 1023)
                     EXCEPT ![1023 + 1] = 0]]

\* message_t logout_message = {0}; htonl
LogoutMessage ==
    [message_type |-> htonl(LOGOUT),
     timestamp |-> Zero(4),
     username |-> Zero(UsernameSize),
     message |-> Zero(MessageSize)]

\* the worker's message_t after perform_full_read and the two ntohl
Decode(bytes) ==
    [message_type |-> ntohl(SubSeq(bytes, 1, 4)),
     timestamp |-> ntohl(SubSeq(bytes, 5, 8)),
     username |-> SubSeq(bytes, 9, 8 + UsernameSize),
     message |-> SubSeq(bytes, 9 + UsernameSize, 8 + UsernameSize + MessageSize)]

\* a text of n printable characters ending in c
Text(n, c) == [i \in 1..n |-> IF i = n THEN c ELSE 120]
\* a buffer holding the text, its NUL, and then rest
Buffer(text, width, rest) ==
    [i \in 1..width |->
        IF i <= Len(text) THEN text[i]
        ELSE IF i = Len(text) + 1 THEN 0 ELSE rest]

\* settings is zeroed at line 45 and filled by fgets at line 147
Usernames ==
    {Buffer(Text(n, c), UsernameSize, 0) :
        n \in {0, 1, UsernameSize - 2, UsernameSize - 1}, c \in {97, 126}}
\* input_buffer is reused from line to line: what follows the NUL is
\* whatever was there before
InputBuffers ==
    {Buffer(Text(n, c), InputBufferSize, rest) :
        n \in {1, 2, InputBufferSize - 2, InputBufferSize - 1},
        c \in {97, 126}, rest \in {0, 99}}

CdInit ==
    /\ ProgramInit
    /\ IoIdle
    /\ HlIdle
    /\ cd_pc = "build"
    /\ cd_kind \in {LOGIN, MESSAGE_SEND, LOGOUT}
    /\ cd_username \in Usernames
    /\ cd_input \in InputBuffers
    /\ cd_record = <<>>

CdBuild ==
    /\ cd_pc = "build"
    /\ cd_pc' = "built"
    /\ cd_record' = Bytes(CASE cd_kind = LOGIN -> LoginMessage(cd_username)
                            [] cd_kind = MESSAGE_SEND -> OutboundMessage(cd_input)
                            [] cd_kind = LOGOUT -> LogoutMessage)
    /\ UNCHANGED <<cd_kind, cd_username, cd_input, ioOnly, hlVars, mainVars,
                   workerVars, peerVars, sigVars>>

CdNext == CdBuild

SpecCodec == CdInit /\ [][CdNext]_vars

\* ------------------------------------------------------------------------
\* Properties
\* ------------------------------------------------------------------------
Renderable == {MESSAGE_RECV, DISCONNECT, SYSTEM}
WorkerStarted == rpc # "not_started"
IsSend(r) == r.message_type = htonl(MESSAGE_SEND)

\* C1: once the worker has decoded a DISCONNECT record it has printed the
\* notice and is in its clean terminal state, so it reads nothing more.
C1_DisconnectEndsWorker ==
    message.message_type = DISCONNECT =>
        /\ rendered = DISCONNECT
        /\ rpc = "done"
        /\ rstatus = "clean"

\* C2: no MESSAGE_SEND record on the wire carries any part of a typed line
\* that was empty or had InputBufferSize or more characters before its line
\* break.
C2_RejectedLinesSendNothing ==
    \A i \in DOMAIN outbound :
        IsSend(outbound[i]) =>
            outbound[i].len >= 1 /\ outbound[i].len <= InputBufferSize - 1

\* C3: whenever the worker has terminated, the run-state is false.
C3_WorkerEndClearsRunning ==
    rpc = "done" => ~running

\* C4: a process that left the send loop and has exited attempted exactly
\* one LOGOUT write, left the run-state false, joined the worker and took
\* its exit status from the worker's terminal status, also when the LOGOUT
\* write was short or failed.
C4_LogoutFailureKeepsExitPath ==
    (pc = "exited" /\ logoutCount > 0) =>
        /\ logoutCount = 1
        /\ ~running
        /\ joined
        /\ exitStatus = (IF rstatus = "clean" THEN ExitSuccess ELSE ExitFailure)

\* C5: once the worker was started, the socket is closed at most once and
\* only after the worker was joined, and the process does not exit before
\* the join.
C5_CloseOnceAfterJoin ==
    WorkerStarted =>
        /\ closeCount <= 1
        /\ (sock = "closed" => joined)
        /\ (pc = "exited" => joined /\ closeCount = 1)

\* C6: when the worker examines a read result other than a full record, it
\* terminates, clean if the run-state is false at that moment and with an
\* error if it is true, and the buffer is neither decoded nor printed.
C6_ShortReadByRunState ==
    [][ (rpc = "examine" /\ size # RecordSize /\ rpc' # rpc) =>
            /\ rpc' = "done"
            /\ rstatus' = (IF running THEN "error" ELSE "clean")
            /\ message' = message
            /\ rendered' = rendered ]_vars

C6_Witness ==
    /\ rpc = "done"
    /\ size = RecordSize - 1
    /\ rstatus = "clean"
    /\ ~running

\* C7: when the worker examines a full record whose kind is none of
\* MESSAGE_RECV, DISCONNECT, SYSTEM, it terminates with an error whatever the
\* run-state, prints nothing, and a terminated worker stays terminated.
C7_OtherKindIsError ==
    [][ /\ (rpc = "examine" /\ size = RecordSize /\ rpc' # rpc
              /\ ntohl(message.net) \notin Renderable) =>
                (rpc' = "done" /\ rstatus' = "error" /\ rendered' = rendered)
        /\ (rpc = "done" => (rpc' = "done" /\ rstatus' = rstatus
                              /\ size' = size /\ message' = message)) ]_vars

C7_Witness ==
    /\ rpc = "done"
    /\ rstatus = "error"
    /\ size = RecordSize
    /\ message.message_type = LOGIN
    /\ ~running

\* C8: when the worker was started and the process has exited, the exit
\* status is zero if the worker terminated clean and non-zero if it
\* terminated with an error.
C8_ExitStatusFromWorker ==
    (pc = "exited" /\ WorkerStarted) =>
        /\ (rstatus = "clean" => exitStatus = ExitSuccess)
        /\ (rstatus = "error" => exitStatus = ExitFailure)

\* C9: the run-state is true only when the connection succeeded, and no
\* login record is written when it did not.
C9_RunningOnlyWhenConnected ==
    /\ running => connected
    /\ ~connected => outbound = <<>>

\* C10: perform_full_read and perform_full_write return n when the transport
\* moves at least n bytes before closing or failing, the count moved (less
\* than n, not -1) when the peer closes first, and -1 when a fault other
\* than an interruption comes first; interrupted calls change none of this.
C10_FullTransfer ==
    io_pc = "returned" =>
        LET f == FirstFinal(io_outs, 1)
            supplied == Supplied(io_outs, f)
        IN  /\ supplied >= io_n => io_ret = io_n
            /\ (supplied < io_n /\ io_outs[f] = PeerGone) =>
                   (io_ret = supplied /\ io_ret # -1)
            /\ (supplied < io_n /\ io_outs[f] = Fault) => io_ret = -1

C10_Witness ==
    /\ io_op = "read"
    /\ io_pc = "returned"
    /\ io_n = MaxN
    /\ io_ret = io_n
    /\ Len(io_outs) = MaxCalls
    /\ io_outs[1] = Moved(1)
    /\ io_outs[2] = Eintr
    /\ io_outs[MaxCalls] = Moved(1)


\* the mention pattern, and where it occurs in the body
Pattern == <<"@">> \o hl_user
OccursAt(i) ==
    /\ i + Len(Pattern) - 1 <= Len(hl_body)
    /\ SubSeq(hl_body, i, i + Len(Pattern) - 1) = Pattern

\* the leftmost occurrences that do not overlap, from position `from` on
RECURSIVE Picks(_)
Picks(from) ==
    LET at == {i \in from..Len(hl_body) : OccursAt(i)}
    IN  IF at = {} THEN <<>>
        ELSE LET m == CHOOSE i \in at : \A j \in at : i <= j
             IN  <<m>> \o Picks(m + Len(Pattern))

\* the characters of the pieces before index j, in order
RECURSIVE Flat(_, _)
Flat(out, j) == IF j <= 1 THEN <<>> ELSE Flat(out, j - 1) \o out[j - 1].s

Indexes(out, kind) == {i \in DOMAIN out : out[i].t = kind}

\* C11: in non-quiet mode with k leftmost non-overlapping mentions, the
\* output holds exactly k highlighted mentions, each at the place of its
\* occurrence, one bell right before the first of them when k > 0 and no
\* bell when k = 0, and every character of the body in its place; in quiet
\* mode the output is the body itself with neither bell nor highlight.
C11_MentionHighlight ==
    hl_pc = "returned" =>
        LET picks == Picks(1)
            k == Len(picks)
            out == hl_out
            mentions == Indexes(out, "mention")
            bells == Indexes(out, "bell")
        IN  /\ out[Len(out)] = Newline
            /\ Flat(out, Len(out) + 1) = hl_body
            /\ IF hl_quiet
               THEN /\ mentions = {} /\ bells = {}
                    /\ Len(out) = Len(hl_body) + 1
               ELSE /\ Cardinality(mentions) = k
                    /\ \A i \in mentions :
                          /\ out[i].s = Pattern
                          /\ \E n \in 1..k : picks[n] = Len(Flat(out, i)) + 1
                    /\ Cardinality(bells) = (IF k > 0 THEN 1 ELSE 0)
                    /\ \A b \in bells :
                          /\ b + 1 \in mentions
                          /\ \A i \in mentions : b < i

C11_Witness ==
    /\ hl_pc = "returned"
    /\ ~hl_quiet
    /\ hl_user = <<"@">>
    /\ hl_body = <<"@", "@", "@", "a">>
    /\ Len(Picks(1)) = 1
    /\ Cardinality(Indexes(hl_out, "char")) = 2

\* the text in a buffer, and the text in a field of the given width with
\* NULs after it
Str(buf) == SubSeq(buf, 1, Strnlen(buf))
Padded(text, width) ==
    [i \in 1..width |-> IF i <= Len(text) THEN text[i] ELSE 0]

\* C12 as stated: for each record the client builds (LOGIN, MESSAGE_SEND,
\* LOGOUT), with a user name of at most 31 bytes and a body of at most 1023,
\* the receive-side reading of the 1092-byte record (ntohl of kind and
\* timestamp, fixed-width fields) gives back the kind, the timestamp, the
\* user name and the body NUL-padded to their widths, the body NUL-terminated
\* within its 1024 bytes.
C12_RoundTrip1092 ==
    cd_pc = "built" =>
        LET d == Decode(cd_record)
        IN  /\ Len(cd_record) = 1092
            /\ d.message_type = cd_kind
            /\ d.timestamp = 0
            /\ d.username =
                  Padded(IF cd_kind = LOGIN THEN Str(cd_username) ELSE <<>>,
                         UsernameSize)
            /\ d.message =
                  Padded(IF cd_kind = MESSAGE_SEND THEN Str(cd_input) ELSE <<>>,
                         MessageSize)
            /\ d.message[MessageSize] = 0

\* C12 amended: the same round trip, of the record of sizeof(message_t) =
\* 4 + 4 + 32 + 1024 = 1064 bytes.
C12_RoundTrip ==
    cd_pc = "built" =>
        LET d == Decode(cd_record)
        IN  /\ Len(cd_record) = RecordSize
            /\ Len(cd_record) = 4 + 4 + UsernameSize + MessageSize
            /\ d.message_type = cd_kind
            /\ d.timestamp = 0
            /\ d.username =
                  Padded(IF cd_kind = LOGIN THEN Str(cd_username) ELSE <<>>,
                         UsernameSize)
            /\ d.message =
                  Padded(IF cd_kind = MESSAGE_SEND THEN Str(cd_input) ELSE <<>>,
                         MessageSize)
            /\ d.message[MessageSize] = 0

C12_Witness ==
    /\ cd_pc = "built"
    /\ cd_kind = MESSAGE_SEND
    /\ Strnlen(cd_input) = MessageSize - 1
    /\ Decode(cd_record).message_type = MESSAGE_SEND
    /\ Strnlen(Decode(cd_record).message) = MessageSize - 1

\* C13: every outbound record, LOGIN included, is written in full or its
\* short write ends the sending: after a record of which fewer than
\* sizeof(message_t) bytes were moved, no MESSAGE_SEND record is written.
C13_ShortWriteEndsSending ==
    \A i, j \in DOMAIN outbound :
        (i < j /\ outbound[i].bytes < RecordSize) => ~IsSend(outbound[j])

\* C14: whenever fgets has delivered (part of) a typed line, (a) what goes
\* on to be sent as MESSAGE_SEND has 1..1023 characters, all printable;
\* (b) a line of 1..1023 printable characters goes on to be sent, whole and
\* once;
\* (c) a line with a non-printable character is not sent, in whole or in
\* part, and the loop continues.
C14_SendsExactlyValidLines ==
    [][ (pc = "fgets" /\ pc' \in {"send", "loop"}) =>
          LET b == input_buffer'
          IN  /\ pc' = "send" =>
                    /\ b.cnt >= 1 /\ b.cnt <= InputBufferSize - 1
                    /\ ~(b.bad > b.off /\ b.bad <= b.off + b.cnt)
              /\ (b.len >= 1 /\ b.len <= InputBufferSize - 1 /\ b.bad = 0) =>
                    IF b.off = 0
                    THEN pc' = "send" /\ b.cnt = b.len
                    ELSE pc' = "loop"
              /\ b.bad # 0 => pc' = "loop" ]_vars

\* the kinds a peer keeps to in the end phase of C15
EndPhaseKinds == {htonl(MESSAGE_RECV), htonl(SYSTEM)}

\* the send loop is left, the run-state is false, LOGOUT is written in full,
\* the peer has closed, the worker has not failed before, and what the peer
\* sent and the worker has not yet printed is of kind MESSAGE_RECV or SYSTEM
EndPhase ==
    /\ pc = "join"
    /\ ~running
    /\ logoutRet = RecordSize
    /\ peerClosed
    /\ rstatus # "error"
    /\ \A i \in DOMAIN inbound : inbound[i].message_type \in EndPhaseKinds
    /\ (rpc = "examine" /\ size = RecordSize) => message.net \in EndPhaseKinds

\* C15: from the end phase on, under fair scheduling, the worker ends clean,
\* the join returns and the process exits with status 0.
C15_CleanExit ==
    EndPhase ~> (/\ pc = "exited"
                 /\ exitStatus = ExitSuccess
                 /\ rstatus = "clean"
                 /\ joined)

C15_Witness ==
    /\ pc = "exited"
    /\ exitStatus = ExitSuccess
    /\ joined
    /\ logoutRet = RecordSize
    /\ peerClosed
    /\ rendered = MESSAGE_RECV
    /\ size = 0
    /\ rstatus = "clean"

\* C16: a SIGINT or SIGTERM delivered at any time after the handlers are
\* installed is not lost: in every state after the delivery the run-state
\* is false.
C16_SignalNeverLost ==
    signalled => ~running

\* the kind of an outbound record as the peer decodes it
Kind(r) == ntohl(r.message_type)

\* C17: the outbound records are LOGIN, then zero or more MESSAGE_SEND, then
\* at most one LOGOUT: the first record is the LOGIN and it is on the wire
\* before the worker starts, no MESSAGE_SEND comes before the LOGIN or after
\* the LOGOUT, and nothing follows the LOGOUT.
C17_OutboundShape ==
    /\ WorkerStarted => outbound # <<>>
    /\ \A i \in DOMAIN outbound :
          /\ (i = 1) <=> (Kind(outbound[i]) = LOGIN)
          /\ Kind(outbound[i]) \in {LOGIN, MESSAGE_SEND, LOGOUT}
          /\ Kind(outbound[i]) = LOGOUT => i = Len(outbound)
    /\ pc \in {"sigaction", "defaults", "process_args", "get_username",
               "socket", "connect", "set_running", "login"} => outbound = <<>>

C17_Witness ==
    /\ Len(outbound) = 3
    /\ Kind(outbound[1]) = LOGIN
    /\ Kind(outbound[2]) = MESSAGE_SEND
    /\ Kind(outbound[3]) = LOGOUT
    /\ \A i \in 1..3 : outbound[i].bytes = RecordSize
    /\ rpc = "done"

\* C18: once the run-state is false, at whatever point of the send loop the
\* signal came, the loop begins no new line read; a line already being read
\* or already read may still be sent, and after that the loop test ends the
\* loop.
C18_NoNewReadAfterStop ==
    [][ ~running =>
          /\ ~(pc = "call_fgets" /\ pc' = "fgets")
          /\ pc = "loop" => pc' \in {"loop", "after_loop"}
          /\ pc = "send" => pc' \in {"send", "loop", "after_loop"} ]_vars

====
